---- MODULE Spec2Model ----
(***************************************************************************)
(* A model of the payment-slip field extraction engine of app/ocr_utils.py *)
(* (find_first_match, _find_date, _find_time, _parse_amount, the name      *)
(* extractors and parse_payment_slip), and of the image handler            *)
(* handle_image_message of app/router.py.                                  *)
(*                                                                         *)
(* A text is a sequence of characters.  A printable ASCII character is the *)
(* one-character string itself; every other character is named by its     *)
(* code point, "U0E08" for U+0E08.  Regular expressions are syntax trees   *)
(* interpreted by Match, a backtracking matcher with the priorities of     *)
(* Python's re module (leftmost start, alternatives in order, greedy or    *)
(* lazy repetition), so that each pattern of the source is written down    *)
(* as it stands there.                                                     *)
(***************************************************************************)
EXTENDS Integers, Sequences, FiniteSets

VARIABLES
  text,      \* the text argument of the call (None: no text)
  patterns,  \* the pattern-list argument of find_first_match
  now_year,  \* datetime.now().year as the call reads it
  pc,        \* "ready" before the call, "returned" after it
  ret,       \* the value returned by the call
  raised,    \* an exception left the call
  log,       \* <<now_year, ret>> of every call made so far on text
  roles,           \* the locals sender and recipient of parse_payment_slip
  temp_file_path,  \* the local temp_file_path of handle_image_message
  temp_file,       \* the name of the file NamedTemporaryFile created for the event (None: none yet)
  files,           \* the temporary directory: <<name, chunks written>> of each file that exists
  extracted_text,  \* the local extracted_text of handle_image_message
  reply_text,      \* the local reply_text of handle_image_message
  sheet,           \* the rows logged to the sheet, in order
  replies          \* the replies sent with line_bot_api.reply_message, in order

\* the locals of the name resolution of parse_payment_slip
nameVars == <<roles>>
\* the locals of handle_image_message and what it acts on
imageVars == <<temp_file_path, temp_file, files, extracted_text, reply_text, sheet, replies>>
vars == <<text, patterns, now_year, pc, ret, raised, log, nameVars, imageVars>>

(***************************************************************************)
(* Values                                                                  *)
(***************************************************************************)
\* Python's None
None == <<"<None>">>
\* an exception propagating out of a function
Raised == <<"<Raised>">>
\* no value yet
NoRet == <<"<NoRet>">>

\* before the names are resolved
NoNames == roles = [sender |-> None, recipient |-> None]
\* no image event was handled yet
NoImage ==
  /\ temp_file_path = None
  /\ temp_file = None
  /\ files = {}
  /\ extracted_text = None
  /\ reply_text = None
  /\ sheet = <<>>
  /\ replies = <<>>

\* Python truthiness of an optional string: None and "" are falsy
Falsy(v) == v = None \/ v = <<>>

(***************************************************************************)
(* Characters and character classes                                        *)
(***************************************************************************)
LowerSeq == <<"a", "b", "c", "d", "e", "f", "g", "h", "i", "j", "k", "l", "m", "n", "o", "p", "q", "r", "s",
    "t", "u", "v", "w", "x", "y", "z">>
UpperSeq == <<"A", "B", "C", "D", "E", "F", "G", "H", "I", "J", "K", "L", "M", "N", "O", "P", "Q", "R", "S",
    "T", "U", "V", "W", "X", "Y", "Z">>
LowerCh == {"a", "b", "c", "d", "e", "f", "g", "h", "i", "j", "k", "l", "m", "n", "o", "p", "q", "r", "s",
    "t", "u", "v", "w", "x", "y", "z"}
UpperCh == {"A", "B", "C", "D", "E", "F", "G", "H", "I", "J", "K", "L", "M", "N", "O", "P", "Q", "R", "S",
    "T", "U", "V", "W", "X", "Y", "Z"}
LatinCh == LowerCh \cup UpperCh
AsciiDigitSeq == <<"0", "1", "2", "3", "4", "5", "6", "7", "8", "9">>
\* Thai digits U+0E50..U+0E59 are decimal digits too (category Nd)
ThaiDigitSeq == <<"U0E50", "U0E51", "U0E52", "U0E53", "U0E54", "U0E55", "U0E56", "U0E57", "U0E58", "U0E59">>
\* \d
DigitCh == {"0", "1", "2", "3", "4", "5", "6", "7", "8", "9"} \cup {"U0E50", "U0E51", "U0E52", "U0E53",
    "U0E54", "U0E55", "U0E56", "U0E57", "U0E58", "U0E59"}
\* \s
SpaceCh == {" ", "\t", "\n", "\r"}
\* [ก-๙]: U+0E01..U+0E59
ThaiRange == {"U0E01", "U0E02", "U0E03", "U0E04", "U0E05", "U0E06", "U0E07", "U0E08", "U0E09", "U0E0A",
    "U0E0B", "U0E0C", "U0E0D", "U0E0E", "U0E0F", "U0E10", "U0E11", "U0E12", "U0E13", "U0E14", "U0E15",
    "U0E16", "U0E17", "U0E18", "U0E19", "U0E1A", "U0E1B", "U0E1C", "U0E1D", "U0E1E", "U0E1F", "U0E20",
    "U0E21", "U0E22", "U0E23", "U0E24", "U0E25", "U0E26", "U0E27", "U0E28", "U0E29", "U0E2A", "U0E2B",
    "U0E2C", "U0E2D", "U0E2E", "U0E2F", "U0E30", "U0E31", "U0E32", "U0E33", "U0E34", "U0E35", "U0E36",
    "U0E37", "U0E38", "U0E39", "U0E3A", "U0E3B", "U0E3C", "U0E3D", "U0E3E", "U0E3F", "U0E40", "U0E41",
    "U0E42", "U0E43", "U0E44", "U0E45", "U0E46", "U0E47", "U0E48", "U0E49", "U0E4A", "U0E4B", "U0E4C",
    "U0E4D", "U0E4E", "U0E4F", "U0E50", "U0E51", "U0E52", "U0E53", "U0E54", "U0E55", "U0E56", "U0E57",
    "U0E58", "U0E59"}
\* Thai combining marks and signs: not alphanumeric, so not \w
ThaiNonWord == {"U0E31", "U0E34", "U0E35", "U0E36", "U0E37", "U0E38", "U0E39", "U0E3A", "U0E3B", "U0E3C",
    "U0E3D", "U0E3E", "U0E3F", "U0E47", "U0E48", "U0E49", "U0E4A", "U0E4B", "U0E4C", "U0E4D", "U0E4E",
    "U0E4F"}
\* \w; U+00DF (sharp s) is a letter
WordCh == LatinCh \cup DigitCh \cup {"_", "U00DF"} \cup (ThaiRange \ ThaiNonWord)

Index(seq, c) == CHOOSE i \in 1..Len(seq) : seq[i] = c
\* str.upper() of one character: U+00DF (sharp s) upper-cases to the two characters "SS"
UpperOfCh(c) ==
  IF c \in LowerCh THEN <<UpperSeq[Index(LowerSeq, c)]>>
  ELSE IF c = "U00DF" THEN <<"S", "S">>
  ELSE <<c>>
LowerOfCh(c) == IF c \in UpperCh THEN LowerSeq[Index(UpperSeq, c)] ELSE c
\* the characters that match c under re.IGNORECASE
CaseVariants(c) ==
  IF c \in LowerCh THEN {c, UpperSeq[Index(LowerSeq, c)]}
  ELSE IF c \in UpperCh THEN {c, LowerSeq[Index(UpperSeq, c)]}
  ELSE {c}
\* a character class under re.IGNORECASE
CI(S) == UNION {CaseVariants(c) : c \in S}

RECURSIVE Flatten(_)
Flatten(ss) == IF ss = <<>> THEN <<>> ELSE Head(ss) \o Flatten(Tail(ss))
\* str.upper()
Upper(s) == Flatten([i \in 1..Len(s) |-> UpperOfCh(s[i])])
\* str.lower()
Lower(s) == [i \in 1..Len(s) |-> LowerOfCh(s[i])]

RECURSIVE LStrip(_)
LStrip(s) == IF s # <<>> /\ Head(s) \in SpaceCh THEN LStrip(Tail(s)) ELSE s
RECURSIVE RStrip(_)
RStrip(s) == IF s # <<>> /\ s[Len(s)] \in SpaceCh THEN RStrip(SubSeq(s, 1, Len(s) - 1)) ELSE s
\* str.strip()
Strip(s) == RStrip(LStrip(s))

\* sub in s (Python's "in" on strings)
IsSubstr(sub, s) == \E i \in 1..(Len(s) - Len(sub) + 1) : SubSeq(s, i, i + Len(sub) - 1) = sub

\* str.replace(old, ""), old one character
RemoveCh(s, c) == Flatten([i \in 1..Len(s) |-> IF s[i] = c THEN <<>> ELSE <<s[i]>>])

RECURSIVE SplitFrom(_, _, _)
SplitFrom(s, i, cur) ==
  IF i > Len(s) THEN <<cur>>
  ELSE IF s[i] = "\n" THEN <<cur>> \o SplitFrom(s, i + 1, <<>>)
  ELSE SplitFrom(s, i + 1, Append(cur, s[i]))
\* text.split('\n')
Split(s) == SplitFrom(s, 1, <<>>)
\* [line.strip() for line in text.split('\n') if line.strip()]
StrippedLines(s) ==
  LET ls == Split(s)
  IN Flatten([i \in 1..Len(ls) |-> IF Strip(ls[i]) = <<>> THEN <<>> ELSE <<Strip(ls[i])>>])

DigitVal(c) ==
  IF c \in {"0", "1", "2", "3", "4", "5", "6", "7", "8", "9"} THEN Index(AsciiDigitSeq,
      c) - 1 ELSE Index(ThaiDigitSeq, c) - 1
RECURSIVE IntOf(_)
\* int(s) of a string of digits
IntOf(s) == IF s = <<>> THEN 0 ELSE IntOf(SubSeq(s, 1, Len(s) - 1)) * 10 + DigitVal(s[Len(s)])
IsDigits(s) == s # <<>> /\ \A i \in 1..Len(s) : s[i] \in DigitCh
RECURSIVE StrOf(_)
\* str(n), n >= 0
StrOf(n) == IF n < 10 THEN <<AsciiDigitSeq[n + 1]>> ELSE Append(StrOf(n \div 10), AsciiDigitSeq[(n % 10) + 1])

(***************************************************************************)
(* Regular expressions                                                     *)
(***************************************************************************)
\* one character of the class S
Ch(S) == [t |-> "set", cs |-> S]
\* . : any character but a line break
Dot == [t |-> "dot"]
Cat(xs) == [t |-> "cat", xs |-> xs]
Alt(xs) == [t |-> "alt", xs |-> xs]
\* x{lo,hi}, greedy
Rep(x, lo, hi) == [t |-> "rep", x |-> x, lo |-> lo, hi |-> hi, inf |-> FALSE, greedy |-> TRUE]
\* x{lo,}, greedy: no upper limit
RepFrom(x, lo) == [t |-> "rep", x |-> x, lo |-> lo, hi |-> 0, inf |-> TRUE, greedy |-> TRUE]
\* x*
Star(x) == RepFrom(x, 0)
\* x+
Plus(x) == RepFrom(x, 1)
\* x+?
PlusLazy(x) == [t |-> "rep", x |-> x, lo |-> 1, hi |-> 0, inf |-> TRUE, greedy |-> FALSE]
\* x?
Opt(x) == Rep(x, 0, 1)
\* capturing group number n
Grp(n, x) == [t |-> "grp", n |-> n, x |-> x]
\* (?=x)
Ahead(x) == [t |-> "ahead", x |-> x]
\* \b
WordB == [t |-> "wordb"]
\* ^ without re.MULTILINE
Bos == [t |-> "bos"]
\* $ without re.MULTILINE: at the end, or before a line break that ends the string
Eos == [t |-> "eos"]
\* $ with re.MULTILINE: at the end, or before any line break
Eol == [t |-> "eol"]
\* the very end of the string (re.fullmatch)
EndOfString == [t |-> "end"]
\* w1|w2|... of literal strings, as re.escape writes them; first holds the characters a match can start
\* with, so that a position where none of them stands is given up at once
AltLit(ws) == [t |-> "lits", ws |-> ws, ci |-> FALSE, first |-> {ws[j][1] : j \in 1..Len(ws)}]
\* w1|w2|... of literal strings under re.IGNORECASE
AltLitI(ws) == [t |-> "lits", ws |-> ws, ci |-> TRUE, first |-> CI({ws[j][1] : j \in 1..Len(ws)})]
\* the literal string w under re.IGNORECASE
LitI(w) == AltLitI(<<w>>)
\* a compiled pattern: its tree and its number of capturing groups
Pat(re, ng) == [re |-> re, ng |-> ng]

IsWordAt(s, i) == i >= 1 /\ i <= Len(s) /\ s[i] \in WordCh
NoMatch == [ok |-> FALSE]
NoGroup == <<0, 0>>

\* the literal w stands in s at position i
LitAt(w, ci, s, i) ==
  /\ i + Len(w) - 1 <= Len(s)
  /\ \A k \in 1..Len(w) : IF ci THEN LowerOfCh(s[i + k - 1]) = LowerOfCh(w[k]) ELSE s[i + k - 1] = w[k]

RECURSIVE Match(_, _, _, _)
RECURSIVE MatchLits(_, _, _, _, _, _)
RECURSIVE MatchAlt(_, _, _, _, _, _)
\* The first way, in the matcher's priority order, to match the sequence k of trees against s from
\* position i on; caps[n] = <<from, to>> is group n's span (s[from..to-1]), NoGroup if it took no part.
Match(k, s, i, caps) ==
  IF k = <<>> THEN [ok |-> TRUE, pos |-> i, caps |-> caps]
  ELSE
    LET h == Head(k)
        r == Tail(k)
    IN CASE h.t = "set" -> IF i <= Len(s) /\ s[i] \in h.cs THEN Match(r, s, i + 1, caps) ELSE NoMatch
         [] h.t = "dot" -> IF i <= Len(s) /\ s[i] # "\n" THEN Match(r, s, i + 1, caps) ELSE NoMatch
         [] h.t = "lits" -> IF i <= Len(s) /\ s[i] \in h.first THEN MatchLits(h, 1, r, s, i,
             caps) ELSE NoMatch
         [] h.t = "cat" -> Match(h.xs \o r, s, i, caps)
         [] h.t = "alt" -> MatchAlt(h, 1, r, s, i, caps)
         [] h.t = "rep" ->
              LET again == [h EXCEPT !.lo = IF h.lo > 0 THEN h.lo - 1 ELSE 0,
                                     !.hi = IF h.inf THEN 0 ELSE h.hi - 1]
                  more == IF h.inf \/ h.hi > 0 THEN Match(<<h.x, again>> \o r, s, i, caps) ELSE NoMatch
                  stop == IF h.lo <= 0 THEN Match(r, s, i, caps) ELSE NoMatch
              IN IF h.greedy THEN (IF more.ok THEN more ELSE stop)
                 ELSE (IF stop.ok THEN stop ELSE more)
         [] h.t = "grp" -> Match(<<h.x, [t |-> "close", n |-> h.n, from |-> i]>> \o r, s, i, caps)
         [] h.t = "close" -> Match(r, s, i, [caps EXCEPT ![h.n] = <<h.from, i>>])
         [] h.t = "ahead" -> IF Match(<<h.x>>, s, i, caps).ok THEN Match(r, s, i, caps) ELSE NoMatch
         [] h.t = "wordb" -> IF IsWordAt(s, i - 1) # IsWordAt(s, i) THEN Match(r, s, i, caps) ELSE NoMatch
         [] h.t = "bos" -> IF i = 1 THEN Match(r, s, i, caps) ELSE NoMatch
         [] h.t = "eos" ->
              IF i = Len(s) + 1 \/ (i = Len(s) /\ s[i] = "\n") THEN Match(r, s, i, caps) ELSE NoMatch
         [] h.t = "eol" ->
              IF i = Len(s) + 1 \/ (i <= Len(s) /\ s[i] = "\n") THEN Match(r, s, i, caps) ELSE NoMatch
         [] h.t = "end" -> IF i = Len(s) + 1 THEN Match(r, s, i, caps) ELSE NoMatch

\* the literals of h from the j-th on, each followed by the rest r of the pattern
MatchLits(h, j, r, s, i, caps) ==
  IF j > Len(h.ws) THEN NoMatch
  ELSE LET m == IF LitAt(h.ws[j], h.ci, s, i) THEN Match(r, s, i + Len(h.ws[j]), caps) ELSE NoMatch
       IN IF m.ok THEN m ELSE MatchLits(h, j + 1, r, s, i, caps)
\* the alternatives of h from the j-th on, each followed by the rest r of the pattern
MatchAlt(h, j, r, s, i, caps) ==
  IF j > Len(h.xs) THEN NoMatch
  ELSE LET m == Match(<<h.xs[j]>> \o r, s, i, caps)
       IN IF m.ok THEN m ELSE MatchAlt(h, j + 1, r, s, i, caps)

\* the attempt to match p in s at position i
TryAt(p, s, i) == Match(<<p.re>>, s, i, [n \in 1..p.ng |-> NoGroup])
\* the match object of the attempt m at position i
MatchAt(m, i) == IF m.ok THEN [ok |-> TRUE, start |-> i, pos |-> m.pos, caps |-> m.caps] ELSE NoMatch
\* re.match(p, s): a match that starts at the start of s
ReMatch(p, s) == MatchAt(TryAt(p, s, 1), 1)
\* re.fullmatch(p, s)
ReFullMatch(p, s) == ReMatch(Pat(Cat(<<p.re, EndOfString>>), p.ng), s)
RECURSIVE SearchNext(_, _, _, _)
\* the leftmost match from position i on, m being the attempt at position i
SearchNext(p, s, i, m) ==
  IF m.ok THEN MatchAt(m, i)
  ELSE IF i > Len(s) THEN NoMatch
  ELSE SearchNext(p, s, i + 1, TryAt(p, s, i + 1))
SearchFrom(p, s, i) == IF i > Len(s) + 1 THEN NoMatch ELSE SearchNext(p, s, i, TryAt(p, s, i))
\* re.search(p, s): the leftmost match
Search(p, s) == SearchFrom(p, s, 1)
\* match.group(n): None for a group that took no part
Group(s, m, n) == IF m.caps[n] = NoGroup THEN None ELSE SubSeq(s, m.caps[n][1], m.caps[n][2] - 1)
\* match.groups()
Groups(s, m, ng) == [n \in 1..ng |-> Group(s, m, n)]
RECURSIVE SubFrom(_, _, _)
\* s from position i on without the matches of p, m being the first of them
SubNext(p, s, i, m) ==
  IF ~m.ok THEN SubSeq(s, i, Len(s))
  ELSE SubSeq(s, i, m.start - 1)
       \o (IF m.pos > m.start THEN SubFrom(p, s, m.pos)
           ELSE IF m.start <= Len(s) THEN <<s[m.start]>> \o SubFrom(p, s, m.start + 1)
           ELSE <<>>)
SubFrom(p, s, i) == SubNext(p, s, i, SearchFrom(p, s, i))
\* re.sub(p, '', s): every non-overlapping match removed
Sub(p, s) == SubFrom(p, s, 1)
RECURSIVE FindAllFrom(_, _, _)
\* the captures of the matches of p in s from position i on, m being the first of them
FindAllNext(p, s, m) ==
  IF ~m.ok THEN <<>>
  ELSE <<Group(s, m, 1)>> \o (IF m.pos > m.start THEN FindAllFrom(p, s, m.pos)
                              ELSE FindAllFrom(p, s, m.start + 1))
FindAllFrom(p, s, i) == FindAllNext(p, s, SearchFrom(p, s, i))
\* re.findall(p, s), p with one group
FindAll(p, s) == FindAllFrom(p, s, 1)

(***************************************************************************)
(* find_first_match                                                        *)
(***************************************************************************)
RECURSIVE FirstTruthy(_)
\* for group in match.groups(): if group: return group.strip() -- None when no group is truthy
FirstTruthy(gs) ==
  IF gs = <<>> THEN None
  ELSE IF ~Falsy(Head(gs)) THEN Strip(Head(gs))
  ELSE FirstTruthy(Tail(gs))

\* the first truthy group, stripped, of the match m of the pattern p; None without one
CaptureOfMatch(s, p, m) == IF m.ok THEN FirstTruthy(Groups(s, m, p.ng)) ELSE None

RECURSIVE find_first_match_skip(_, _)
\* a variant that gives up at the first pattern that matches, whatever its groups hold
find_first_match_skip(s, ps) ==
  IF ps = <<>> THEN None
  ELSE IF Search(Head(ps), s).ok THEN CaptureOfMatch(s, Head(ps), Search(Head(ps), s))
  ELSE find_first_match_skip(s, Tail(ps))

RECURSIVE find_first_match(_, _)
\* the loop over the patterns, g being what the first pattern of ps gives: a pattern that matches
\* with no truthy group does not return, the loop goes on to the next pattern
FirstMatchNext(s, ps, g) == IF g # None THEN g ELSE find_first_match(s, Tail(ps))
\* The patterns are compiled with re.IGNORECASE | re.MULTILINE by their definitions.
find_first_match(s, ps) ==
  IF ps = <<>> THEN None
  ELSE FirstMatchNext(s, ps, CaptureOfMatch(s, Head(ps), Search(Head(ps), s)))

(***************************************************************************)
(* _find_date                                                              *)
(***************************************************************************)
\* the dict parse_thai_months, in insertion order: <<name, month number>>
parse_thai_months ==
  << <<<<"U0E21", "U0E01", "U0E23", "U0E32", "U0E04", "U0E21">>, 1>>, <<<<"U0E01", "U0E38", "U0E21", "U0E20",
      "U0E32", "U0E1E", "U0E31", "U0E19", "U0E18", "U0E4C">>, 2>>, <<<<"U0E21", "U0E35", "U0E19", "U0E32",
      "U0E04", "U0E21">>, 3>>, <<<<"U0E40", "U0E21", "U0E29", "U0E32", "U0E22", "U0E19">>, 4>>,
     <<<<"U0E1E", "U0E24", "U0E29", "U0E20", "U0E32", "U0E04", "U0E21">>, 5>>, <<<<"U0E21", "U0E34", "U0E16",
         "U0E38", "U0E19", "U0E32", "U0E22", "U0E19">>, 6>>, <<<<"U0E01", "U0E23", "U0E01", "U0E0E", "U0E32",
         "U0E04", "U0E21">>, 7>>, <<<<"U0E2A", "U0E34", "U0E07", "U0E2B", "U0E32", "U0E04", "U0E21">>, 8>>,
     <<<<"U0E01", "U0E31", "U0E19", "U0E22", "U0E32", "U0E22", "U0E19">>, 9>>, <<<<"U0E15", "U0E38", "U0E25",
         "U0E32", "U0E04", "U0E21">>, 10>>, <<<<"U0E1E", "U0E24", "U0E28", "U0E08", "U0E34", "U0E01",
         "U0E32", "U0E22", "U0E19">>, 11>>, <<<<"U0E18", "U0E31", "U0E19", "U0E27", "U0E32", "U0E04",
         "U0E21">>, 12>>,
     <<<<"U0E21", ".", "U0E04", ".">>, 1>>, <<<<"U0E01", ".", "U0E1E", ".">>, 2>>, <<<<"U0E21", "U0E35", ".",
         "U0E04", ".">>, 3>>, <<<<"U0E40", "U0E21", ".", "U0E22", ".">>, 4>>,
     <<<<"U0E1E", ".", "U0E04", ".">>, 5>>, <<<<"U0E21", "U0E34", ".", "U0E22", ".">>, 6>>, <<<<"U0E01", ".",
         "U0E04", ".">>, 7>>, <<<<"U0E2A", ".", "U0E04", ".">>, 8>>,
     <<<<"U0E01", ".", "U0E22", ".">>, 9>>, <<<<"U0E15", ".", "U0E04", ".">>, 10>>, <<<<"U0E1E", ".",
         "U0E22", ".">>, 11>>, <<<<"U0E18", ".", "U0E04", ".">>, 12>> >>

full_thai_months ==
  <<<<"U0E21", "U0E01", "U0E23", "U0E32", "U0E04", "U0E21">>, <<"U0E01", "U0E38", "U0E21", "U0E20", "U0E32",
      "U0E1E", "U0E31", "U0E19", "U0E18", "U0E4C">>, <<"U0E21", "U0E35", "U0E19", "U0E32", "U0E04",
      "U0E21">>, <<"U0E40", "U0E21", "U0E29", "U0E32", "U0E22", "U0E19">>, <<"U0E1E", "U0E24", "U0E29",
      "U0E20", "U0E32", "U0E04", "U0E21">>, <<"U0E21", "U0E34", "U0E16", "U0E38", "U0E19", "U0E32", "U0E22",
      "U0E19">>,
    <<"U0E01", "U0E23", "U0E01", "U0E0E", "U0E32", "U0E04", "U0E21">>, <<"U0E2A", "U0E34", "U0E07", "U0E2B",
        "U0E32", "U0E04", "U0E21">>, <<"U0E01", "U0E31", "U0E19", "U0E22", "U0E32", "U0E22", "U0E19">>,
        <<"U0E15", "U0E38", "U0E25", "U0E32", "U0E04", "U0E21">>, <<"U0E1E", "U0E24", "U0E28", "U0E08",
        "U0E34", "U0E01", "U0E32", "U0E22", "U0E19">>, <<"U0E18", "U0E31", "U0E19", "U0E27", "U0E32",
        "U0E04", "U0E21">>>>

\* parse_thai_months.keys()
month_keys ==
  <<<<"U0E21", "U0E01", "U0E23", "U0E32", "U0E04", "U0E21">>, <<"U0E01", "U0E38", "U0E21", "U0E20", "U0E32",
      "U0E1E", "U0E31", "U0E19", "U0E18", "U0E4C">>, <<"U0E21", "U0E35", "U0E19", "U0E32", "U0E04",
      "U0E21">>, <<"U0E40", "U0E21", "U0E29", "U0E32", "U0E22", "U0E19">>, <<"U0E1E", "U0E24", "U0E29",
      "U0E20", "U0E32", "U0E04", "U0E21">>, <<"U0E21", "U0E34", "U0E16", "U0E38", "U0E19", "U0E32", "U0E22",
      "U0E19">>,
    <<"U0E01", "U0E23", "U0E01", "U0E0E", "U0E32", "U0E04", "U0E21">>, <<"U0E2A", "U0E34", "U0E07", "U0E2B",
        "U0E32", "U0E04", "U0E21">>, <<"U0E01", "U0E31", "U0E19", "U0E22", "U0E32", "U0E22", "U0E19">>,
        <<"U0E15", "U0E38", "U0E25", "U0E32", "U0E04", "U0E21">>, <<"U0E1E", "U0E24", "U0E28", "U0E08",
        "U0E34", "U0E01", "U0E32", "U0E22", "U0E19">>, <<"U0E18", "U0E31", "U0E19", "U0E27", "U0E32",
        "U0E04", "U0E21">>,
    <<"U0E21", ".", "U0E04", ".">>, <<"U0E01", ".", "U0E1E", ".">>, <<"U0E21", "U0E35", ".", "U0E04", ".">>,
        <<"U0E40", "U0E21", ".", "U0E22", ".">>, <<"U0E1E", ".", "U0E04", ".">>, <<"U0E21", "U0E34", ".",
        "U0E22", ".">>,
    <<"U0E01", ".", "U0E04", ".">>, <<"U0E2A", ".", "U0E04", ".">>, <<"U0E01", ".", "U0E22", ".">>,
        <<"U0E15", ".", "U0E04", ".">>, <<"U0E1E", ".", "U0E22", ".">>, <<"U0E18", ".", "U0E04", ".">>>>

\* (month names)[\s/.-]+(\d{2,4}), re.IGNORECASE
month_year_pattern ==
  Pat(Cat(<<Grp(1, AltLitI(month_keys)),
            Plus(Ch(SpaceCh \cup {"/", ".", "-"})),
            Grp(2, Rep(Ch(DigitCh), 2, 4))>>), 2)

\* (\d{1,2})[/-](\d{1,2})[/-](\d{2,4})
numeric_date_pattern ==
  Pat(Cat(<<Grp(1, Rep(Ch(DigitCh), 1, 2)), Ch({"/", "-"}),
            Grp(2, Rep(Ch(DigitCh), 1, 2)), Ch({"/", "-"}),
            Grp(3, Rep(Ch(DigitCh), 2, 4))>>), 3)

\* \b(\d{1,2})\b
possible_day_pattern == Pat(Cat(<<WordB, Grp(1, Rep(Ch(DigitCh), 1, 2)), WordB>>), 1)

\* day_str, month_str, year_str = numeric_match.groups()
NumericComponents(s, numeric_match) ==
  IF ~numeric_match.ok THEN [found |-> FALSE]
  ELSE [found |-> TRUE,
        day_str |-> Group(s, numeric_match, 1),
        month_str |-> Group(s, numeric_match, 2),
        year_str |-> Group(s, numeric_match, 3)]
\* day_str = possible_days[-1]
MonthYearComponents(s, month_year_match, possible_days) ==
  IF possible_days = <<>> THEN [found |-> FALSE]
  ELSE [found |-> TRUE,
        day_str |-> possible_days[Len(possible_days)],
        month_str |-> Group(s, month_year_match, 1),
        year_str |-> Group(s, month_year_match, 2)]
\* the numeric pattern is searched only if no month and year is found
ComponentsAfter(s, month_year_match) ==
  IF ~month_year_match.ok THEN NumericComponents(s, Search(numeric_date_pattern, s))
  ELSE MonthYearComponents(s, month_year_match,
                           FindAll(possible_day_pattern, SubSeq(s, 1, month_year_match.start - 1)))
\* The components the search finds: found = FALSE where the function returns None before the try.
DateComponents(s) == ComponentsAfter(s, Search(month_year_pattern, s))

\* the century a two-digit year is expanded with, always the whole Buddhist year
CenturyOfUnfloored(year) == year + 543
\* century = (current_year_be // 100) * 100
CenturyOf(year) == ((year + 543) \div 100) * 100

\* year_be: a year of one or two digits is expanded with the current Buddhist century
YearBE(year_str, year) ==
  IF Len(year_str) <= 2 THEN IntOf(year_str) + CenturyOf(year) ELSE IntOf(year_str)

\* year_ad = year_be - 543 if year_be > 2500 else year_be
YearAD(year_be) == IF year_be > 2500 THEN year_be - 543 ELSE year_be

RECURSIVE MonthLookup(_, _)
\* the loop over parse_thai_months.items(): the first key contained in month_str; 0 stands for None
MonthLookup(month_str, i) ==
  IF i > Len(parse_thai_months) THEN 0
  ELSE IF IsSubstr(Lower(parse_thai_months[i][1]), Lower(month_str)) THEN parse_thai_months[i][2]
  ELSE MonthLookup(month_str, i + 1)

\* month_num: int(month_str), and on ValueError the table lookup; 0 stands for None
MonthNum(month_str) == IF IsDigits(month_str) THEN IntOf(month_str) ELSE MonthLookup(month_str, 1)

\* the days of month m of year y of the Gregorian calendar
DaysInMonth(y, m) ==
  IF m = 2 THEN (IF (y % 4 = 0 /\ y % 100 # 0) \/ y % 400 = 0 THEN 29 ELSE 28)
  ELSE IF m \in {4, 6, 9, 11} THEN 30 ELSE 31
\* datetime(y, m, d) raises ValueError unless this holds (MINYEAR = 1, MAXYEAR = 9999)
DatetimeOk(y, m, d) == y >= 1 /\ y <= 9999 /\ m >= 1 /\ m <= 12 /\ d >= 1 /\ d <= DaysInMonth(y, m)

\* formatted_date = f"{day} {month_name_full} {year_be}"
FormatDate(day, month_num, year_be) ==
  StrOf(day) \o <<" ">> \o full_thai_months[month_num] \o <<" ">> \o StrOf(year_be)

\* The try block: [exc |-> TRUE] when it raises, else the formatted date.
TryFormatDate(day_str, month_str, year_str, year) ==
  LET day == IntOf(day_str)
      year_be == YearBE(year_str, year)
      year_ad == YearAD(year_be)
      month_num == MonthNum(month_str)
  IN IF month_num = 0 THEN [exc |-> TRUE]
     ELSE IF ~(1 <= day /\ day <= 31 /\ 1 <= month_num /\ month_num <= 12) THEN [exc |-> TRUE]
     ELSE IF ~DatetimeOk(year_ad, month_num, day) THEN [exc |-> TRUE]
     ELSE [exc |-> FALSE, val |-> FormatDate(day, month_num, year_be)]

\* f"{day_str} {month_str} {year_str}" if all([day_str, month_str, year_str]) else None
DateLiteral(day_str, month_str, year_str) ==
  IF ~Falsy(day_str) /\ ~Falsy(month_str) /\ ~Falsy(year_str)
  THEN day_str \o <<" ">> \o month_str \o <<" ">> \o year_str
  ELSE None

\* a variant without the except clause: the exception of the try block propagates
FormattedOrRaised(c, r) == IF r.exc THEN Raised ELSE r.val
\* a variant whose except clause gives the date up
FormattedOrNone(c, r) == IF r.exc THEN None ELSE r.val
\* the except clause: the literal when the try block r raised
FormattedOrLiteral(c, r) == IF r.exc THEN DateLiteral(c.day_str, c.month_str, c.year_str) ELSE r.val
\* the try block on the components c
DateOf(c, year) ==
  IF ~c.found THEN None
  ELSE FormattedOrLiteral(c, TryFormatDate(c.day_str, c.month_str, c.year_str, year))
_find_date(s, year) == DateOf(DateComponents(s), year)

(***************************************************************************)
(* _find_time                                                              *)
(***************************************************************************)
\* \d{1,2}:\d{2}(?::\d{2})?
TimeToken12 ==
  Cat(<<Rep(Ch(DigitCh), 1, 2), Ch({":"}), Rep(Ch(DigitCh), 2, 2),
        Opt(Cat(<<Ch({":"}), Rep(Ch(DigitCh), 2, 2)>>))>>)
\* \d{2}:\d{2}(?::\d{2})?
TimeToken22 ==
  Cat(<<Rep(Ch(DigitCh), 2, 2), Ch({":"}), Rep(Ch(DigitCh), 2, 2),
        Opt(Cat(<<Ch({":"}), Rep(Ch(DigitCh), 2, 2)>>))>>)

\* \d{1,2}\s+[ก-ฮเ-์.]+\s+\d{2,4}[,\s]+(\d{1,2}:\d{2}(?::\d{2})?), re.IGNORECASE
time_on_date_line_pattern ==
  Pat(Cat(<<Rep(Ch(DigitCh), 1, 2), Plus(Ch(SpaceCh)),
            Plus(Ch({"U0E01", "U0E02", "U0E03", "U0E04", "U0E05", "U0E06", "U0E07", "U0E08", "U0E09",
                "U0E0A", "U0E0B", "U0E0C", "U0E0D", "U0E0E", "U0E0F", "U0E10", "U0E11", "U0E12", "U0E13",
                "U0E14", "U0E15", "U0E16", "U0E17", "U0E18", "U0E19", "U0E1A", "U0E1B", "U0E1C", "U0E1D",
                "U0E1E", "U0E1F", "U0E20", "U0E21", "U0E22", "U0E23", "U0E24", "U0E25", "U0E26", "U0E27",
                "U0E28", "U0E29", "U0E2A", "U0E2B", "U0E2C", "U0E2D", "U0E2E"} \cup {"U0E40", "U0E41",
                "U0E42", "U0E43", "U0E44", "U0E45", "U0E46", "U0E47", "U0E48", "U0E49", "U0E4A", "U0E4B",
                "U0E4C"} \cup {"."})),
            Plus(Ch(SpaceCh)), Rep(Ch(DigitCh), 2, 4), Plus(Ch(SpaceCh \cup {","})),
            Grp(1, TimeToken12)>>), 1)

\* (?:เวลา|Time)\s*[:\s]*(\d{2}:\d{2}(?::\d{2})?)
time_keyword_pattern ==
  Pat(Cat(<<AltLitI(<<<<"U0E40", "U0E27", "U0E25", "U0E32">>, <<"T", "i", "m", "e">>>>), Star(Ch(SpaceCh)),
      Star(Ch(SpaceCh \cup {":"})),
            Grp(1, TimeToken22)>>), 1)
\* \b(\d{2}:\d{2}:\d{2})\b
time_hms_pattern ==
  Pat(Cat(<<WordB, Grp(1, Cat(<<Rep(Ch(DigitCh), 2, 2), Ch({":"}), Rep(Ch(DigitCh), 2, 2), Ch({":"}),
                                Rep(Ch(DigitCh), 2, 2)>>)), WordB>>), 1)
\* \b(\d{1,2}:\d{2})\b
time_hm_pattern ==
  Pat(Cat(<<WordB, Grp(1, Cat(<<Rep(Ch(DigitCh), 1, 2), Ch({":"}), Rep(Ch(DigitCh), 2, 2)>>)), WordB>>), 1)

time_patterns == <<time_keyword_pattern, time_hms_pattern, time_hm_pattern>>

\* the time on the line of the date, else the first of time_patterns
TimeAfter(s, time_on_date_line) ==
  IF time_on_date_line.ok THEN Group(s, time_on_date_line, 1) ELSE find_first_match(s, time_patterns)
_find_time(s) == TimeAfter(s, Search(time_on_date_line_pattern, s))

(***************************************************************************)
(* _parse_amount                                                           *)
(***************************************************************************)
\* [\d,]+\.\d{2}
AmountToken == Cat(<<Plus(Ch(DigitCh \cup {","})), Ch({"."}), Rep(Ch(DigitCh), 2, 2)>>)

\* (?:จำนวนเงิน|Amount|โอนเงินสำเร็จ|ยอดเงิน|จำนวน\s?เงิน)\s*[:\s]*([\d,]+\.\d{2})
amount_keyword_pattern ==
  Pat(Cat(<<Alt(<<LitI(<<"U0E08", "U0E33", "U0E19", "U0E27", "U0E19", "U0E40", "U0E07", "U0E34", "U0E19">>),
      LitI(<<"A", "m", "o", "u", "n", "t">>), LitI(<<"U0E42", "U0E2D", "U0E19", "U0E40", "U0E07", "U0E34",
      "U0E19", "U0E2A", "U0E33", "U0E40", "U0E23", "U0E47", "U0E08">>), LitI(<<"U0E22", "U0E2D", "U0E14",
      "U0E40", "U0E07", "U0E34", "U0E19">>),
                  Cat(<<LitI(<<"U0E08", "U0E33", "U0E19", "U0E27", "U0E19">>), Opt(Ch(SpaceCh)),
                      LitI(<<"U0E40", "U0E07", "U0E34", "U0E19">>)>>)>>),
            Star(Ch(SpaceCh)), Star(Ch(SpaceCh \cup {":"})), Grp(1, AmountToken)>>), 1)
\* ([\d,]+\.\d{2})\s*(?:บาท|BAHT|thb)
amount_currency_pattern ==
  Pat(Cat(<<Grp(1, AmountToken), Star(Ch(SpaceCh)), AltLitI(<<<<"U0E1A", "U0E32", "U0E17">>, <<"B", "A", "H",
      "T">>, <<"t", "h", "b">>>>)>>), 1)
\* \b([\d,]{1,10}\.\d{2})\b
amount_bare_pattern ==
  Pat(Cat(<<WordB, Grp(1, Cat(<<Rep(Ch(DigitCh \cup {","}), 1, 10), Ch({"."}), Rep(Ch(DigitCh), 2, 2)>>)),
            WordB>>), 1)

amount_patterns == <<amount_keyword_pattern, amount_currency_pattern, amount_bare_pattern>>

\* amount.replace(',', '') if amount else None
WithoutCommas(amount) == IF ~Falsy(amount) THEN RemoveCh(amount, ",") ELSE None
_parse_amount(s) == WithoutCommas(find_first_match(s, amount_patterns))

(***************************************************************************)
(* _clean_ocr_name                                                         *)
(***************************************************************************)
\* ^[.\s]+
leading_noise_pattern == Pat(Cat(<<Bos, Plus(Ch(SpaceCh \cup {"."}))>>), 0)
\* ^[.\sาอ]+
leading_noise_thai_pattern == Pat(Cat(<<Bos, Plus(Ch(SpaceCh \cup {".", "U0E32", "U0E2D"}))>>), 0)

\* cleaned.replace('ฺ', ''): U+0E3A
_clean_ocr_name(name) ==
  IF Falsy(name) THEN None
  ELSE Strip(Strip(Sub(leading_noise_thai_pattern, RemoveCh(Sub(leading_noise_pattern, name), "U0E3A"))))

(***************************************************************************)
(* Names                                                                   *)
(***************************************************************************)
\* (?:นาย|นาง|นางสาว|น\.ส\.|คุณ|บจก\.|หจก\.)?
Honorific == Opt(AltLitI(<<<<"U0E19", "U0E32", "U0E22">>, <<"U0E19", "U0E32", "U0E07">>, <<"U0E19", "U0E32",
    "U0E07", "U0E2A", "U0E32", "U0E27">>, <<"U0E19", ".", "U0E2A", ".">>, <<"U0E04", "U0E38", "U0E13">>,
    <<"U0E1A", "U0E08", "U0E01", ".">>, <<"U0E2B", "U0E08", "U0E01", ".">>>>))
\* [ก-๙A-Za-z\s.\'"]
NameCh == ThaiRange \cup LatinCh \cup SpaceCh \cup {".", "'", "\""}
\* ^((?:honorific)?\s*[ก-๙A-Za-z\s.\'"]+), re.IGNORECASE
name_pattern == Pat(Cat(<<Bos, Grp(1, Cat(<<Honorific, Star(Ch(SpaceCh)), Plus(Ch(NameCh))>>))>>), 1)

\* \s*x-?[\dx]+.*  (no flags)
masked_suffix_pattern ==
  Pat(Cat(<<Star(Ch(SpaceCh)), Ch({"x"}), Opt(Ch({"-"})), Plus(Ch(DigitCh \cup {"x"})), Star(Dot)>>), 0)

\* any(kw.upper() in previous_line for kw in context_keywords), previous_line upper-cased
AnyKeywordIn(context_keywords, previous_line) ==
  \E k \in 1..Len(context_keywords) : IsSubstr(Upper(context_keywords[k]), previous_line)

RECURSIVE StandaloneFrom(_, _, _)
\* the body of the loop for line i, name_match being re.match(name_pattern, line)
StandaloneNext(lines, i, context_keywords, name_match) ==
  IF name_match.ok /\ i > 1 /\ AnyKeywordIn(context_keywords, Upper(lines[i - 1]))
  THEN Strip(Sub(masked_suffix_pattern, Strip(Group(lines[i], name_match, 1))))
  ELSE StandaloneFrom(lines, i + 1, context_keywords)
StandaloneFrom(lines, i, context_keywords) ==
  IF i > Len(lines) THEN None
  ELSE StandaloneNext(lines, i, context_keywords, ReMatch(name_pattern, lines[i]))

_find_standalone_name(s, context_keywords) == StandaloneFrom(StrippedLines(s), 1, context_keywords)

\* (?:keywords)[\s:.-]*((?:honorific)?\s*[ก-๙A-Za-z\s.\'"]+?)(?=\s*x-?[\dx]+|\s*ธนาคาร|$)
NameAnchoredPattern(keywords) ==
  Pat(Cat(<<AltLitI(keywords), Star(Ch(SpaceCh \cup {":", ".", "-"})),
            Grp(1, Cat(<<Honorific, Star(Ch(SpaceCh)), PlusLazy(Ch(NameCh))>>)),
            Ahead(Alt(<<Cat(<<Star(Ch(SpaceCh)), Ch({"x", "X"}), Opt(Ch({"-"})),
                              Plus(Ch(DigitCh \cup {"x", "X"}))>>),
                        Cat(<<Star(Ch(SpaceCh)), LitI(<<"U0E18", "U0E19", "U0E32", "U0E04", "U0E32",
                            "U0E23">>)>>),
                        Eol>>))>>), 1)
\* (?:keywords)\s+((?:honorific)?\s*[ก-๙A-Za-z\s.\'"]+)
NameLoosePattern(keywords) ==
  Pat(Cat(<<AltLitI(keywords), Plus(Ch(SpaceCh)),
            Grp(1, Cat(<<Honorific, Star(Ch(SpaceCh)), Plus(Ch(NameCh))>>))>>), 1)
\* [\d\s-]+$
trailing_digits_pattern == Pat(Cat(<<Plus(Ch(DigitCh \cup SpaceCh \cup {"-"})), Eos>>), 0)
\* ['นาย', 'นาง', 'นางสาว', 'น.ส.', 'คุณ']
bare_honorifics == {<<"U0E19", "U0E32", "U0E22">>, <<"U0E19", "U0E32", "U0E07">>, <<"U0E19", "U0E32",
    "U0E07", "U0E2A", "U0E32", "U0E27">>, <<"U0E19", ".", "U0E2A", ".">>, <<"U0E04", "U0E38", "U0E13">>}

\* if cleaned_name and cleaned_name.lower() not in [...]: return cleaned_name
NameUnlessBare(cleaned_name) ==
  IF cleaned_name # <<>> /\ Lower(cleaned_name) \notin bare_honorifics THEN cleaned_name ELSE None
\* if name: the trailing digits and the keywords are taken out of it
CleanedName(name, keywords) ==
  IF Falsy(name) THEN None
  ELSE NameUnlessBare(Strip(Sub(Pat(Grp(1, AltLitI(keywords)), 1),
                                Strip(Sub(trailing_digits_pattern, name)))))
_parse_name(s, keywords) ==
  CleanedName(find_first_match(s, <<NameAnchoredPattern(keywords), NameLoosePattern(keywords)>>), keywords)

\* (\b\d{10}\b|x-?[\dx-]{5,}), re.IGNORECASE
account_pattern ==
  Pat(Grp(1, Alt(<<Cat(<<WordB, Rep(Ch(DigitCh), 10, 10), WordB>>),
                   Cat(<<Ch({"x", "X"}), Opt(Ch({"-"})), RepFrom(Ch(DigitCh \cup {"x", "X", "-"}), 5)>>)>>)),
                       1)
\* (ธนาคาร|bank|\bธ\.|\bธ\s|โอนเงิน|จำนวนเงิน|วันที่|สำเร็จ|บาท|baht|amount|transfer), re.IGNORECASE
non_name_clues ==
  Pat(Grp(1, Alt(<<LitI(<<"U0E18", "U0E19", "U0E32", "U0E04", "U0E32", "U0E23">>), LitI(<<"b", "a", "n",
      "k">>), Cat(<<WordB, LitI(<<"U0E18", ".">>)>>),
                   Cat(<<WordB, LitI(<<"U0E18">>), Ch(SpaceCh)>>),
                   AltLitI(<<<<"U0E42", "U0E2D", "U0E19", "U0E40", "U0E07", "U0E34", "U0E19">>, <<"U0E08",
                       "U0E33", "U0E19", "U0E27", "U0E19", "U0E40", "U0E07", "U0E34", "U0E19">>, <<"U0E27",
                       "U0E31", "U0E19", "U0E17", "U0E35", "U0E48">>, <<"U0E2A", "U0E33", "U0E40", "U0E23",
                       "U0E47", "U0E08">>, <<"U0E1A", "U0E32", "U0E17">>, <<"b", "a", "h", "t">>,
                             <<"a", "m", "o", "u", "n", "t">>, <<"t", "r", "a", "n", "s", "f", "e",
                                 "r">>>>)>>)), 1)
\* [\sx-]+, re.IGNORECASE
only_mask_pattern == Pat(Plus(Ch(SpaceCh \cup {"x", "X", "-"})), 0)
\* \s+x-?[\dx-]+.*, re.IGNORECASE
masked_tail_pattern ==
  Pat(Cat(<<Plus(Ch(SpaceCh)), Ch({"x", "X"}), Opt(Ch({"-"})), Plus(Ch(DigitCh \cup {"x", "X", "-"})),
            Star(Dot)>>), 0)

\* name_confirmed for line i
NameConfirmed(lines, i) ==
  \/ Search(account_pattern, lines[i]).ok
  \/ (i + 1 <= Len(lines) /\ Search(account_pattern, lines[i + 1]).ok)
  \/ (i + 2 <= Len(lines) /\ Search(non_name_clues, lines[i + 1]).ok
      /\ Search(account_pattern, lines[i + 2]).ok)

\* if len(name) > 2 and name not in found_names: found_names.append(name)
WithName(found_names, name) ==
  IF Len(name) > 2 /\ \A k \in 1..Len(found_names) : found_names[k] # name
  THEN Append(found_names, name) ELSE found_names

RECURSIVE NamesFrom(_, _, _)
\* a confirmed name, name0 being name_match.group(1).strip(): a name of mask characters is skipped
NamesWith(lines, i, found_names, name0) ==
  IF ReFullMatch(only_mask_pattern, name0).ok THEN NamesFrom(lines, i + 1, found_names)
  ELSE NamesFrom(lines, i + 1, WithName(found_names, Strip(Sub(masked_tail_pattern, name0))))
\* the body of the loop for line i, name_match being name_pattern.match(line)
NamesNext(lines, i, found_names, name_match) ==
  IF name_match.ok /\ ~Search(non_name_clues, lines[i]).ok /\ NameConfirmed(lines, i)
  THEN NamesWith(lines, i, found_names, Strip(Group(lines[i], name_match, 1)))
  ELSE NamesFrom(lines, i + 1, found_names)
\* the loop over the lines, found_names so far
NamesFrom(lines, i, found_names) ==
  IF i > Len(lines) THEN found_names
  ELSE NamesNext(lines, i, found_names, ReMatch(name_pattern, lines[i]))

_find_names_by_account_number(s) == NamesFrom(StrippedLines(s), 1, <<>>)

(***************************************************************************)
(* parse_payment_slip                                                      *)
(***************************************************************************)
\* the dict bank_keywords, in declaration order: <<bank, keywords>>
bank_keywords ==
  << <<<<"U0E01", "U0E23", "U0E38", "U0E07", "U0E40", "U0E17", "U0E1E">>, <<<<"B", "B", "L">>, <<"B", "B",
      "L", "A">>, <<"B", "A", "N", "G", "K", "O", "K", " ", "B", "A", "N", "K">>, <<"U0E18", "U0E19",
      "U0E32", "U0E04", "U0E32", "U0E23", "U0E01", "U0E23", "U0E38", "U0E07", "U0E40", "U0E17", "U0E1E">>,
      <<"U0E01", "U0E23", "U0E38", "U0E07", "U0E40", "U0E17", "U0E1E">>>> >>,
     <<<<"U0E01", "U0E2A", "U0E34", "U0E01", "U0E23", "U0E44", "U0E17", "U0E22">>, <<<<"K", "B", "A", "N",
         "K">>, <<"K", "A", "S", "I", "K", "O", "R", "N", "B", "A", "N", "K">>, <<"K", "A", "S", "I">>,
         <<"K", "P", "L", "U", "S">>, <<"K", "+">>, <<"+">>, <<"M", "A", "K", "E">>,
                        <<"M", "A", "K", "E", " ", "b", "y", " ", "K", "B", "a", "n", "k">>, <<"U0E18",
                            "U0E19", "U0E32", "U0E04", "U0E32", "U0E23", "U0E01", "U0E2A", "U0E34", "U0E01",
                            "U0E23", "U0E44", "U0E17", "U0E22">>, <<"U0E01", "U0E2A", "U0E34", "U0E01",
                            "U0E23", "U0E44", "U0E17", "U0E22">>, <<"U0E01", "U0E2A", "U0E34", "U0E01",
                            "U0E23">>,
                        <<"U0E23", ".", "U0E01", "U0E2A", "U0E34", "U0E01", "U0E23", "U0E44", "U0E17",
                            "U0E22">>, <<"U0E20", " ", "U0E2A", " ", "U0E01", " ", "U0E23", " ", "U0E44",
                            "U0E17", " ", "U0E22">>>> >>,
     <<<<"U0E44", "U0E17", "U0E22", "U0E1E", "U0E32", "U0E13", "U0E34", "U0E0A", "U0E22", "U0E4C">>, <<<<"S",
         "C", "B">>, <<"S", "I", "A", "M", " ", "C", "O", "M", "M", "E", "R", "C", "I", "A", "L", " ", "B",
         "A", "N", "K">>, <<"U0E18", "U0E19", "U0E32", "U0E04", "U0E32", "U0E23", "U0E44", "U0E17", "U0E22",
         "U0E1E", "U0E32", "U0E13", "U0E34", "U0E0A", "U0E22", "U0E4C">>, <<"U0E44", "U0E17", "U0E22",
         "U0E1E", "U0E32", "U0E13", "U0E34", "U0E0A", "U0E22", "U0E4C">>>> >>,
     <<<<"U0E01", "U0E23", "U0E38", "U0E07", "U0E44", "U0E17", "U0E22">>, <<<<"K", "T", "B">>, <<"K", "R",
         "U", "N", "G", "T", "H", "A", "I">>, <<"k", "r", "u", "n", "g", "t", "h", "a", "i">>, <<"U0E18",
         "U0E19", "U0E32", "U0E04", "U0E32", "U0E23", "U0E01", "U0E23", "U0E38", "U0E07", "U0E44", "U0E17",
         "U0E22">>, <<"U0E01", "U0E23", "U0E38", "U0E07", "U0E44", "U0E17", "U0E22">>,
                       <<"U0E01", " ", "U0E23", " ", "U0E07", " ", "U0E44", "U0E17", " ", "U0E22">>>> >>,
     <<<<"U0E17", "U0E2B", "U0E32", "U0E23", "U0E44", "U0E17", "U0E22", "U0E18", "U0E19", "U0E0A", "U0E32",
         "U0E15">>, <<<<"T", "T", "B">>, <<"t", "t", "b">>, <<"T", "M", "B", "T", "H", "A", "N", "A", "C",
         "H", "A", "R", "T", " ", "B", "A", "N", "K">>, <<"U0E18", "U0E19", "U0E32", "U0E04", "U0E32",
         "U0E23", "U0E17", "U0E2B", "U0E32", "U0E23", "U0E44", "U0E17", "U0E22", "U0E18", "U0E19", "U0E0A",
         "U0E32", "U0E15">>,
                            <<"U0E17", "U0E35", "U0E40", "U0E2D", "U0E47", "U0E21", "U0E1A", "U0E35",
                                "U0E18", "U0E19", "U0E0A", "U0E32", "U0E15">>, <<"U0E17", "U0E2B", "U0E32",
                                "U0E23", "U0E44", "U0E17", "U0E22">>, <<"U0E18", "U0E19", "U0E0A", "U0E32",
                                "U0E15">>, <<"T", "T", "M", "B">>>> >>,
     <<<<"U0E2D", "U0E2D", "U0E21", "U0E2A", "U0E34", "U0E19">>, <<<<"G", "S", "B">>, <<"G", "O", "V", "E",
         "R", "N", "M", "E", "N", "T", " ", "S", "A", "V", "I", "N", "G", "S", " ", "B", "A", "N", "K">>,
         <<"M", "Y", "M", "O">>, <<"U0E18", "U0E19", "U0E32", "U0E04", "U0E32", "U0E23", "U0E2D", "U0E2D",
         "U0E21", "U0E2A", "U0E34", "U0E19">>, <<"U0E2D", "U0E2D", "U0E21", "U0E2A", "U0E34", "U0E19">>,
                      <<"U0E2D", " ", "U0E2D", " ", "U0E21", " ", "U0E2A", " ", "U0E19">>>> >>,
     <<<<"U0E01", "U0E23", "U0E38", "U0E07", "U0E28", "U0E23", "U0E35", "U0E2D", "U0E22", "U0E38", "U0E18",
         "U0E22", "U0E32">>, <<<<"B", "A", "Y">>, <<"K", "R", "U", "N", "G", "S", "R", "I">>, <<"B", "A",
         "N", "K", " ", "O", "F", " ", "A", "Y", "U", "D", "H", "Y", "A">>, <<"U0E18", "U0E19", "U0E32",
         "U0E04", "U0E32", "U0E23", "U0E01", "U0E23", "U0E38", "U0E07", "U0E28", "U0E23", "U0E35", "U0E2D",
         "U0E22", "U0E38", "U0E18", "U0E22", "U0E32">>,
                             <<"U0E01", "U0E23", "U0E38", "U0E07", "U0E28", "U0E23", "U0E35">>>> >>,
     <<<<"U0E18", ".", "U0E01", ".", "U0E2A", ".">>, <<<<"B", "A", "A", "C">>, <<"U0E18", "U0E01", "U0E2A">>,
         <<"U0E18", ".", "U0E01", ".", "U0E2A", ".">>>> >> >>

\* ['ไปยัง', 'ไปที่', 'TO', 'ผู้รับเงิน', 'ผู้รับ', 'RECIPIENT', 'ถึง']
recipient_markers == <<<<"U0E44", "U0E1B", "U0E22", "U0E31", "U0E07">>, <<"U0E44", "U0E1B", "U0E17", "U0E35",
    "U0E48">>, <<"T", "O">>, <<"U0E1C", "U0E39", "U0E49", "U0E23", "U0E31", "U0E1A", "U0E40", "U0E07",
    "U0E34", "U0E19">>, <<"U0E1C", "U0E39", "U0E49", "U0E23", "U0E31", "U0E1A">>, <<"R", "E", "C", "I", "P",
    "I", "E", "N", "T">>, <<"U0E16", "U0E36", "U0E07">>>>
\* '|'.join(recipient_markers), searched with re.IGNORECASE
recipient_pattern == Pat(AltLitI(recipient_markers), 0)

RECURSIVE FirstBankIn(_, _)
\* for name, kw_list in bank_keywords.items(): the first bank one of whose keywords, as re.escape
\* writes it, is found in section (no flag: the search is case-sensitive); None when there is none
FirstBankIn(section, i) ==
  IF i > Len(bank_keywords) THEN None
  ELSE IF Search(Pat(AltLit(bank_keywords[i][2]), 0), section).ok THEN bank_keywords[i][1]
  ELSE FirstBankIn(section, i + 1)

\* sender_section_text = text_upper[:match.start()] if match else text_upper
SenderSection(text_upper, match) ==
  IF match.ok THEN SubSeq(text_upper, 1, match.start - 1) ELSE text_upper
\* if not sender_bank: the search of the whole text
BankOrAnywhere(sender_bank, text_upper) ==
  IF Falsy(sender_bank) THEN FirstBankIn(text_upper, 1) ELSE sender_bank
\* The bank: the marker is searched in the text, and its offset cuts the upper-cased text.
sender_bank_of(s) ==
  BankOrAnywhere(FirstBankIn(SenderSection(Upper(s), Search(recipient_pattern, s)), 1), Upper(s))

\* ['จาก', 'From', 'ผู้โอน']
sender_keywords == <<<<"U0E08", "U0E32", "U0E01">>, <<"F", "r", "o", "m">>, <<"U0E1C", "U0E39", "U0E49",
    "U0E42", "U0E2D", "U0E19">>>>
\* ['ไปยัง','ไปที่', 'To', 'ผู้รับเงิน', 'ผู้รับ', 'Recipient', 'ถึง']
recipient_keywords == <<<<"U0E44", "U0E1B", "U0E22", "U0E31", "U0E07">>, <<"U0E44", "U0E1B", "U0E17",
    "U0E35", "U0E48">>, <<"T", "o">>, <<"U0E1C", "U0E39", "U0E49", "U0E23", "U0E31", "U0E1A", "U0E40",
    "U0E07", "U0E34", "U0E19">>, <<"U0E1C", "U0E39", "U0E49", "U0E23", "U0E31", "U0E1A">>, <<"R", "e", "c",
    "i", "p", "i", "e", "n", "t">>, <<"U0E16", "U0E36", "U0E07">>>>

\* a or b
OrElse(a, b) == IF ~Falsy(a) THEN a ELSE b

\* a variant that assigns the names by position whether or not the role is already resolved
NamesByPositionAlways(sender, recipient, names_from_position) ==
  [sender |-> IF Len(names_from_position) >= 1 THEN names_from_position[1] ELSE sender,
   recipient |-> IF Len(names_from_position) >= 2 THEN names_from_position[2] ELSE recipient]
\* if not sender and len(names_from_position) >= 1 ..., if not recipient and ... >= 2 ...
NamesOrByPosition(sender, recipient, names_from_position) ==
  [sender |-> IF Falsy(sender) /\ Len(names_from_position) >= 1 THEN names_from_position[1] ELSE sender,
   recipient |-> IF Falsy(recipient) /\ Len(names_from_position) >= 2
                 THEN names_from_position[2] ELSE recipient]
\* if not sender or not recipient: the names by position fill what is missing
NamesAfter(s, sender, recipient) ==
  IF Falsy(sender) \/ Falsy(recipient)
  THEN NamesOrByPosition(sender, recipient, _find_names_by_account_number(s))
  ELSE [sender |-> sender, recipient |-> recipient]
\* sender and recipient: the keyword and standalone strategies, then the names by position
SenderRecipient(s) ==
  NamesAfter(s, OrElse(_parse_name(s, sender_keywords), _find_standalone_name(s, sender_keywords)),
             OrElse(_parse_name(s, recipient_keywords), _find_standalone_name(s, recipient_keywords)))

\* (?:รหัสอ้างอิง|หมายเลขอ้างอิง|เลขที่อ้างอิง|เลขที่รายการ|รหัสอ้างอิง|เลขอ้างอิง|อ้างอิง|Ref|Ref\.\s*No|No\.)
\* [\s:.]*([a-zA-Z0-9\s-]+)
ref_keyword_pattern ==
  Pat(Cat(<<Alt(<<AltLitI(<<<<"U0E23", "U0E2B", "U0E31", "U0E2A", "U0E2D", "U0E49", "U0E32", "U0E07",
      "U0E2D", "U0E34", "U0E07">>, <<"U0E2B", "U0E21", "U0E32", "U0E22", "U0E40", "U0E25", "U0E02", "U0E2D",
      "U0E49", "U0E32", "U0E07", "U0E2D", "U0E34", "U0E07">>, <<"U0E40", "U0E25", "U0E02", "U0E17", "U0E35",
      "U0E48", "U0E2D", "U0E49", "U0E32", "U0E07", "U0E2D", "U0E34", "U0E07">>, <<"U0E40", "U0E25", "U0E02",
      "U0E17", "U0E35", "U0E48", "U0E23", "U0E32", "U0E22", "U0E01", "U0E32", "U0E23">>,
                           <<"U0E23", "U0E2B", "U0E31", "U0E2A", "U0E2D", "U0E49", "U0E32", "U0E07", "U0E2D",
                               "U0E34", "U0E07">>, <<"U0E40", "U0E25", "U0E02", "U0E2D", "U0E49", "U0E32",
                               "U0E07", "U0E2D", "U0E34", "U0E07">>, <<"U0E2D", "U0E49", "U0E32", "U0E07",
                               "U0E2D", "U0E34", "U0E07">>, <<"R", "e", "f">>>>),
                  Cat(<<LitI(<<"R", "e", "f", ".">>), Star(Ch(SpaceCh)), LitI(<<"N", "o">>)>>),
                  LitI(<<"N", "o", ".">>)>>),
            Star(Ch(SpaceCh \cup {":", "."})),
            Grp(1, Plus(Ch(LatinCh \cup {"0", "1", "2", "3", "4", "5", "6", "7", "8",
                "9"} \cup SpaceCh \cup {"-"})))>>), 1)
\* \b([a-zA-Z0-9]{15,})\b
ref_bare_pattern ==
  Pat(Cat(<<WordB, Grp(1, RepFrom(Ch(LatinCh \cup {"0", "1", "2", "3", "4", "5", "6", "7", "8", "9"}), 15)),
      WordB>>), 1)
ref_patterns == <<ref_keyword_pattern, ref_bare_pattern>>

\* reference.replace(" ", "") if reference else None
WithoutSpaces(reference) == IF ~Falsy(reference) THEN RemoveCh(reference, " ") ELSE None
reference_of(s) == WithoutSpaces(find_first_match(s, ref_patterns))

\* The record built for a text that is not empty, from the date and the names found.
SlipRecord(s, date, names) ==
  [raw_text |-> s,
   bank |-> sender_bank_of(s),
   amount |-> _parse_amount(s),
   date |-> date,
   time |-> _find_time(s),
   sender |-> _clean_ocr_name(names.sender),
   recipient |-> _clean_ocr_name(names.recipient),
   reference |-> reference_of(s)]

\* exc: an exception of _find_date leaves the function; val: the record returned
SlipAfter(s, date) ==
  IF date = Raised THEN [exc |-> TRUE, val |-> [error |-> "raised"]]
  ELSE [exc |-> FALSE, val |-> SlipRecord(s, date, SenderRecipient(s))]
\* if not text: return {"error": ...} -- None and "" are falsy
parse_payment_slip(s, year) ==
  IF s = None \/ s = <<>> THEN [exc |-> FALSE, val |-> [error |-> "no text"]]
  ELSE SlipAfter(s, _find_date(s, year))

(***************************************************************************)
(* Inputs                                                                  *)
(***************************************************************************)
\* the texts made of at most n words of the vocabulary
TextsOf(vocabulary, n) == {Flatten(ws) : ws \in UNION {[1..k -> vocabulary] : k \in 0..n}}

\* readings of the clock: this decade, and the two years around the turn of the Buddhist century 2600
ClockYears == {2026, 2056, 2057}
FirstYear == CHOOSE y \in ClockYears : \A z \in ClockYears : y <= z

(***************************************************************************)
(* parse_payment_slip called on a text, again and again as the years pass  *)
(***************************************************************************)
MaxSlipWords == 3
\* "จาก" (from), "สมชาย" (a name), ".", a line break
NameVocabulary == {<<"U0E08", "U0E32", "U0E01">>, <<"U0E2A", "U0E21", "U0E0A", "U0E32", "U0E22">>, <<".">>,
    <<"\n">>}
\* "Ref: 7", "X", a line break, a space
RefVocabulary == {<<"R", "e", "f", ":", " ", "7">>, <<"X">>, <<"\n">>, <<" ">>}
\* "5 ", "ม.ค. " (January), "67", "2567"
YearVocabulary == {<<"5", " ">>, <<"U0E21", ".", "U0E04", ".", " ">>, <<"6", "7">>, <<"2", "5", "6", "7">>}
\* U+00DF (sharp s), "SCB", "to BBL", "ktb"
BankVocabulary == {<<"U00DF">>, <<"S", "C", "B">>, <<"t", "o", " ", "B", "B", "L">>, <<"k", "t", "b">>}
SlipTexts ==
  {None} \cup TextsOf(NameVocabulary, MaxSlipWords) \cup TextsOf(RefVocabulary, MaxSlipWords)
         \cup TextsOf(YearVocabulary, MaxSlipWords) \cup TextsOf(BankVocabulary, MaxSlipWords)

Init ==
  /\ text \in SlipTexts
  /\ patterns = <<>>
  /\ now_year = FirstYear
  /\ pc = "ready"
  /\ ret = NoRet
  /\ raised = FALSE
  /\ log = {}
  /\ NoNames
  /\ NoImage

\* the call ends with the outcome r; log keeps what each call returned
Returns(r) ==
  /\ raised' = r.exc
  /\ ret' = r.val
  /\ log' = (IF r.exc THEN log ELSE log \cup {<<now_year, r.val>>})

\* parse_payment_slip(text) is called and returns or raises
Call ==
  /\ pc = "ready"
  /\ Returns(parse_payment_slip(text, now_year))
  /\ pc' = "returned"
  /\ UNCHANGED <<text, patterns, now_year>>
  /\ UNCHANGED <<nameVars, imageVars>>

\* time passes before the next call
Tick ==
  /\ pc = "returned"
  /\ \E y \in ClockYears : y > now_year /\ now_year' = y
  /\ pc' = "ready"
  /\ UNCHANGED <<text, patterns, ret, raised, log>>
  /\ UNCHANGED <<nameVars, imageVars>>

Next == Call \/ Tick

Spec == Init /\ [][Next]_vars

(***************************************************************************)
(* _find_date called on a text                                             *)
(***************************************************************************)
MaxDateWords == 4
\* "31", "/", "1/", "ก.พ." (February), "67", "2024"
DateVocabulary == {<<"3", "1">>, <<"/">>, <<"1", "/">>, <<"U0E01", ".", "U0E1E", ".">>, <<"6", "7">>, <<"2",
    "0", "2", "4">>}
DateTexts == TextsOf(DateVocabulary, MaxDateWords)

InitDate ==
  /\ text \in DateTexts
  /\ patterns = <<>>
  /\ now_year \in ClockYears
  /\ pc = "ready"
  /\ ret = NoRet
  /\ raised = FALSE
  /\ log = {}
  /\ NoNames
  /\ NoImage

\* the call ends with r
ReturnsDate(r) ==
  /\ ret' = (IF r = Raised THEN NoRet ELSE r)
  /\ raised' = (r = Raised)

CallFindDate ==
  /\ pc = "ready"
  /\ ReturnsDate(_find_date(text, now_year))
  /\ pc' = "returned"
  /\ UNCHANGED <<text, patterns, now_year, log>>
  /\ UNCHANGED <<nameVars, imageVars>>

SpecDate == InitDate /\ [][CallFindDate]_vars

(***************************************************************************)
(* _parse_amount called on a text                                          *)
(***************************************************************************)
MaxAmountWords == 3
\* "Amount: ", ",", ".50", "1", "บาท" (baht)
AmountVocabulary == {<<"A", "m", "o", "u", "n", "t", ":", " ">>, <<",">>, <<".", "5", "0">>, <<"1">>,
    <<"U0E1A", "U0E32", "U0E17">>}
AmountTexts == TextsOf(AmountVocabulary, MaxAmountWords)

InitAmount ==
  /\ text \in AmountTexts
  /\ patterns = <<>>
  /\ now_year = FirstYear
  /\ pc = "ready"
  /\ ret = NoRet
  /\ raised = FALSE
  /\ log = {}
  /\ NoNames
  /\ NoImage

CallParseAmount ==
  /\ pc = "ready"
  /\ ret' = _parse_amount(text)
  /\ pc' = "returned"
  /\ UNCHANGED <<text, patterns, now_year, raised, log>>
  /\ UNCHANGED <<nameVars, imageVars>>

SpecAmount == InitAmount /\ [][CallParseAmount]_vars

(***************************************************************************)
(* _find_time called on a text                                             *)
(***************************************************************************)
MaxTimeWords == 4
\* "1 ม.ค. 67" (a date), a space, a line break, "9:30", "Time 09:15", "10:45:00"
TimeVocabulary == {<<"1", " ", "U0E21", ".", "U0E04", ".", " ", "6", "7">>, <<" ">>, <<"\n">>, <<"9", ":",
    "3", "0">>, <<"T", "i", "m", "e", " ", "0", "9", ":", "1", "5">>, <<"1", "0", ":", "4", "5", ":", "0",
    "0">>}
TimeTexts == TextsOf(TimeVocabulary, MaxTimeWords)

InitTime ==
  /\ text \in TimeTexts
  /\ patterns = <<>>
  /\ now_year = FirstYear
  /\ pc = "ready"
  /\ ret = NoRet
  /\ raised = FALSE
  /\ log = {}
  /\ NoNames
  /\ NoImage

CallFindTime ==
  /\ pc = "ready"
  /\ ret' = _find_time(text)
  /\ pc' = "returned"
  /\ UNCHANGED <<text, patterns, now_year, raised, log>>
  /\ UNCHANGED <<nameVars, imageVars>>

SpecTime == InitTime /\ [][CallFindTime]_vars

(***************************************************************************)
(* find_first_match called on a text and a list of patterns                *)
(***************************************************************************)
MaxMatchWords == 3
MaxPatterns == 2
\* "k", "7", a space
MatchVocabulary == {<<"k">>, <<"7">>, <<" ">>}
MatchTexts == TextsOf(MatchVocabulary, MaxMatchWords)
\* k(\d*), (\d+), k\s+(\d+)?
PatternPool ==
  {Pat(Cat(<<LitI(<<"k">>), Grp(1, Star(Ch(DigitCh)))>>), 1),
   Pat(Grp(1, Plus(Ch(DigitCh))), 1),
   Pat(Cat(<<LitI(<<"k">>), Plus(Ch(SpaceCh)), Opt(Grp(1, Plus(Ch(DigitCh))))>>), 1)}
PatternLists == UNION {[1..n -> PatternPool] : n \in 0..MaxPatterns}

InitMatch ==
  /\ text \in MatchTexts
  /\ patterns \in PatternLists
  /\ now_year = FirstYear
  /\ pc = "ready"
  /\ ret = NoRet
  /\ raised = FALSE
  /\ log = {}
  /\ NoNames
  /\ NoImage

CallFindFirstMatch ==
  /\ pc = "ready"
  /\ ret' = find_first_match(text, patterns)
  /\ pc' = "returned"
  /\ UNCHANGED <<text, patterns, now_year, raised, log>>
  /\ UNCHANGED <<nameVars, imageVars>>

SpecMatch == InitMatch /\ [][CallFindFirstMatch]_vars

(***************************************************************************)
(* the name resolution of parse_payment_slip on a text                     *)
(***************************************************************************)
MaxNameWords == 3
\* "From ", "To ", a name line followed by a masked account line (twice), a name line
RoleVocabulary == {<<"F", "r", "o", "m", " ">>, <<"T", "o", " ">>, <<"A", "n", "n", "\n", "x", "-", "1", "2",
    "3", "4", "5", "\n">>, <<"B", "o", "b", "\n", "x", "-", "1", "2", "3", "4", "5", "\n">>, <<"A", "n", "n",
    "\n">>}
RoleTexts == TextsOf(RoleVocabulary, MaxNameWords)

InitNames ==
  /\ text \in RoleTexts
  /\ patterns = <<>>
  /\ now_year = FirstYear
  /\ pc = "ready"
  /\ ret = NoRet
  /\ raised = FALSE
  /\ log = {}
  /\ NoNames
  /\ NoImage

\* sender = _parse_name(...) or _find_standalone_name(...), and the same for recipient
ResolveNames ==
  /\ pc = "ready"
  /\ roles' = [sender |-> OrElse(_parse_name(text, sender_keywords),
                                 _find_standalone_name(text, sender_keywords)),
               recipient |-> OrElse(_parse_name(text, recipient_keywords),
                                    _find_standalone_name(text, recipient_keywords))]
  /\ pc' = "resolved"
  /\ UNCHANGED <<text, patterns, now_year, ret, raised, log, imageVars>>

\* if not sender or not recipient: the names found by position fill the roles
FillByPosition ==
  /\ pc = "resolved"
  /\ roles' = NamesAfter(text, roles.sender, roles.recipient)
  /\ pc' = "filled"
  /\ UNCHANGED <<text, patterns, now_year, ret, raised, log, imageVars>>

SpecNames == InitNames /\ [][ResolveNames \/ FillByPosition]_vars

(***************************************************************************)
(* handle_image_message, one image event after the other                   *)
(***************************************************************************)
MaxFiles == 2
MaxChunks == 2
MaxReplies == 2
MaxRows == 1
\* the names NamedTemporaryFile can give a file
FileNames == {<<"t", "m", "p">> \o StrOf(n) \o <<".", "j", "p", "g">> : n \in 1..MaxFiles}
\* what extract_text_from_image reads: nothing (None, also when the OCR fails), "", "ab",
\* "9.50", "THB", "hello"
OcrTexts == {None, <<>>, <<"a", "b">>, <<"9", ".", "5", "0">>, <<"T", "H", "B">>, <<"h", "e", "l", "l", "o">>}

\* os.path.exists(f)
Exists(f) == \E p \in files : p[1] = f

InitImage ==
  /\ text = None
  /\ patterns = <<>>
  /\ now_year = FirstYear
  /\ pc = "idle"
  /\ ret = NoRet
  /\ raised = FALSE
  /\ log = {}
  /\ NoNames
  /\ NoImage

\* the handler is called with an image event: temp_file_path = None
HandleEvent ==
  /\ pc \in {"idle", "finished"}
  /\ Len(replies) < MaxReplies
  /\ Len(sheet) < MaxRows
  /\ temp_file_path' = None
  /\ temp_file' = None
  /\ extracted_text' = None
  /\ reply_text' = None
  /\ raised' = FALSE
  /\ pc' = "get_content"
  /\ UNCHANGED <<text, patterns, now_year, ret, log, nameVars, files, sheet, replies>>

\* message_content = line_bot_api.get_message_content(event.message.id), which may raise
GetContent ==
  /\ pc = "get_content"
  /\ pc' \in {"open", "except"}
  /\ UNCHANGED <<text, patterns, now_year, ret, raised, log, nameVars, imageVars>>

\* with tempfile.NamedTemporaryFile(suffix='.jpg', delete=False) as temp_file: a file with a
\* fresh name is created, or the call raises
OpenTempFile ==
  /\ pc = "open"
  /\ \/ \E f \in FileNames :
          /\ ~Exists(f)
          /\ files' = files \cup {<<f, 0>>}
          /\ temp_file' = f
          /\ pc' = "write"
     \/ /\ pc' = "except"
        /\ UNCHANGED <<files, temp_file>>
  /\ UNCHANGED <<text, patterns, now_year, ret, raised, log, nameVars,
                 temp_file_path, extracted_text, reply_text, sheet, replies>>

\* for chunk in message_content.iter_content(): temp_file.write(chunk) -- one chunk is written
WriteChunk ==
  /\ pc = "write"
  /\ \E p \in files :
       /\ p[1] = temp_file
       /\ p[2] < MaxChunks
       /\ files' = (files \ {p}) \cup {<<p[1], p[2] + 1>>}
  /\ UNCHANGED <<text, patterns, now_year, pc, ret, raised, log, nameVars,
                 temp_file_path, temp_file, extracted_text, reply_text, sheet, replies>>

\* iter_content() or write() raises: the with block closes the file, which delete=False keeps,
\* and the exception reaches the except clause before temp_file_path is assigned
WriteFails ==
  /\ pc = "write"
  /\ pc' = "except"
  /\ UNCHANGED <<text, patterns, now_year, ret, raised, log, nameVars, imageVars>>

\* the content ends: temp_file_path = temp_file.name, and the with block closes the file
EndOfContent ==
  /\ pc = "write"
  /\ temp_file_path' = temp_file
  /\ pc' = "ocr"
  /\ UNCHANGED <<text, patterns, now_year, ret, raised, log, nameVars,
                 temp_file, files, extracted_text, reply_text, sheet, replies>>

\* extracted_text = extract_text_from_image(temp_file_path), which catches its own exceptions
\* and returns None for them
ExtractText ==
  /\ pc = "ocr"
  /\ extracted_text' \in OcrTexts
  /\ pc' = "read"
  /\ UNCHANGED <<text, patterns, now_year, ret, raised, log, nameVars,
                 temp_file_path, temp_file, files, reply_text, sheet, replies>>

\* is_slip = parsed_data.get("amount") or
\*           any(kw in extracted_text for kw in ["จำนวนเงิน", "บาท", "THB", "Amount"])
IsSlip(parsed_data, s) ==
  \/ ~Falsy(parsed_data.amount)
  \/ \E kw \in {<<"U0E08", "U0E33", "U0E19", "U0E27", "U0E19", "U0E40", "U0E07", "U0E34", "U0E19">>,
      <<"U0E1A", "U0E32", "U0E17">>, <<"T", "H", "B">>, <<"A", "m", "o", "u", "n", "t">>} : IsSubstr(kw, s)

\* the else branch with the outcome r of parse_payment_slip(extracted_text): an exception goes
\* to the except clause, a slip is summarised and then logged, any other text is counted
Parsed(r) ==
  /\ ret' = r.val
  /\ IF r.exc THEN pc' = "except" /\ UNCHANGED reply_text
     ELSE IF IsSlip(r.val, extracted_text)
          THEN pc' = "sheet" /\ reply_text' = [kind |-> "summary", data |-> r.val]
          ELSE pc' = "reply" /\ reply_text' = [kind |-> "counts", characters |-> Len(extracted_text)]

\* if not extracted_text or len(extracted_text.strip()) < 3: the reply for an unreadable image;
\* else the text is parsed
ReadText ==
  /\ pc = "read"
  /\ \/ /\ Falsy(extracted_text) \/ Len(Strip(extracted_text)) < 3
        /\ reply_text' = [kind |-> "unreadable"]
        /\ pc' = "reply"
        /\ UNCHANGED ret
     \/ /\ ~(Falsy(extracted_text) \/ Len(Strip(extracted_text)) < 3)
        /\ Parsed(parse_payment_slip(extracted_text, now_year))
  /\ UNCHANGED <<text, patterns, now_year, raised, log, nameVars,
                 temp_file_path, temp_file, files, extracted_text, sheet, replies>>

\* the inner try: the row is logged, or there is no client, or the logging raises and the
\* inner except clause logs the error
LogToSheet ==
  /\ pc = "sheet"
  /\ \/ sheet' = Append(sheet, ret)
     \/ UNCHANGED sheet
  /\ pc' = "reply"
  /\ UNCHANGED <<text, patterns, now_year, ret, raised, log, nameVars,
                 temp_file_path, temp_file, files, extracted_text, reply_text, replies>>

\* line_bot_api.reply_message(event.reply_token, TextSendMessage(text=reply_text)), which
\* may raise
Reply ==
  /\ pc = "reply"
  /\ \/ replies' = Append(replies, reply_text) /\ pc' = "finally"
     \/ UNCHANGED replies /\ pc' = "except"
  /\ UNCHANGED <<text, patterns, now_year, ret, raised, log, nameVars,
                 temp_file_path, temp_file, files, extracted_text, reply_text, sheet>>

\* except Exception: the error is logged and the error reply is sent; if that call raises,
\* the exception leaves the handler after the finally clause
Except ==
  /\ pc = "except"
  /\ \/ replies' = Append(replies, [kind |-> "error"]) /\ UNCHANGED raised
     \/ UNCHANGED replies /\ raised' = TRUE
  /\ pc' = "finally"
  /\ UNCHANGED <<text, patterns, now_year, ret, log, nameVars,
                 temp_file_path, temp_file, files, extracted_text, reply_text, sheet>>

\* finally: if temp_file_path and os.path.exists(temp_file_path): os.unlink(temp_file_path)
Finally ==
  /\ pc = "finally"
  /\ files' = (IF ~Falsy(temp_file_path) /\ Exists(temp_file_path)
               THEN {p \in files : p[1] # temp_file_path} ELSE files)
  /\ pc' = "finished"
  /\ UNCHANGED <<text, patterns, now_year, ret, raised, log, nameVars,
                 temp_file_path, temp_file, extracted_text, reply_text, sheet, replies>>

NextImage ==
  \/ HandleEvent \/ GetContent \/ OpenTempFile \/ WriteChunk \/ WriteFails \/ EndOfContent
  \/ ExtractText \/ ReadText \/ LogToSheet \/ Reply \/ Except \/ Finally

SpecImage == InitImage /\ [][NextImage]_vars

(***************************************************************************)
(* Properties of parse_payment_slip (Spec)                                 *)
(***************************************************************************)
\* the call has returned a record for a text that is not empty
ReturnedRecord == pc = "returned" /\ ~raised /\ ~Falsy(text)

\* C1: parse_payment_slip never raises; for an empty or absent text the record has the one key
\* error; for any other text it has no error key, raw_text is the text, all seven field keys are
\* there, and each field holds what its own resolver finds, whatever the other fields are.
C1_NeverRaisesAllKeys ==
  pc = "returned" =>
    /\ ~raised
    /\ IF Falsy(text) THEN DOMAIN ret = {"error"}
       ELSE /\ DOMAIN ret = {"raw_text", "bank", "amount", "date", "time", "sender", "recipient", "reference"}
            /\ ret.raw_text = text
            /\ ret.amount = _parse_amount(text)
            /\ ret.time = _find_time(text)
            /\ ret.date = _find_date(text, now_year)

\* C1, its case: a record with a date and a reference-less, amount-less rest
C1_Witness == ReturnedRecord /\ ret.date # None /\ ret.amount = None /\ ret.sender = None

\* C2: each optional field of a returned record is absent or a non-empty string without leading
\* or trailing whitespace.
C2_FieldsNonEmptyTrimmed ==
  ReturnedRecord =>
    \A f \in {"bank", "amount", "date", "time", "sender", "recipient", "reference"} :
      ret[f] = None \/ (ret[f] # <<>> /\ ret[f][1] \notin SpaceCh /\ ret[f][Len(ret[f])] \notin SpaceCh)

\* C4: the reference of a returned record is absent or holds no space, tab or line break.
C4_ReferenceNoWhitespace ==
  ReturnedRecord =>
    ret.reference = None \/ \A i \in 1..Len(ret.reference) : ret.reference[i] \notin {" ", "\t", "\n", "\r"}

\* the Buddhist century the clock is in
BuddhistCentury(y) == (y + 543) \div 100

\* C5 as stated: any two calls on the same text return the same record, whenever they run.
C5_SameTextSameRecord == \A a, b \in log : a[2] = b[2]

\* C5, amended: any two calls on the same text that run in the same Buddhist century return the
\* same record.
C5_SameTextSameCenturySameRecord ==
  \A a, b \in log : BuddhistCentury(a[1]) = BuddhistCentury(b[1]) => a[2] = b[2]

\* C5, its case: two calls in different years of one century agree, and a call in the next
\* century returned another record
C5_Witness ==
  \E a, b, c \in log :
    /\ a[1] # b[1] /\ BuddhistCentury(a[1]) = BuddhistCentury(b[1]) /\ a[2] = b[2]
    /\ BuddhistCentury(c[1]) # BuddhistCentury(a[1]) /\ c[2] # a[2]

\* the banks, by their place in the table, one of whose keywords occurs in section whatever the case
BanksIn(section) ==
  {i \in 1..Len(bank_keywords) :
     \E k \in 1..Len(bank_keywords[i][2]) : IsSubstr(Upper(bank_keywords[i][2][k]), Upper(section))}
\* the name of the first bank of a set of places, None for the empty set
FirstBankOf(places) ==
  IF places = {} THEN None ELSE bank_keywords[CHOOSE i \in places : \A j \in places : i <= j][1]
\* the text before the first recipient marker, the whole text where there is none
SenderWindow(s) ==
  LET starts == {i \in 1..Len(s) : \E k \in 1..Len(recipient_markers) :
                   /\ i + Len(recipient_markers[k]) - 1 <= Len(s)
                   /\ Upper(SubSeq(s, i, i + Len(recipient_markers[k]) - 1)) = Upper(recipient_markers[k])}
  IN IF starts = {} THEN s ELSE SubSeq(s, 1, (CHOOSE i \in starts : \A j \in starts : i <= j) - 1)

\* C10: the bank is the first bank of the table with a keyword in the text before the first
\* recipient marker; without a marker, or without a bank there, the first bank of the table with a
\* keyword anywhere in the text; absent exactly when no keyword occurs in the text.
C10_BankOfSenderWindow ==
  ReturnedRecord =>
    ret.bank = (IF BanksIn(SenderWindow(text)) # {} THEN FirstBankOf(BanksIn(SenderWindow(text)))
                ELSE FirstBankOf(BanksIn(text)))

(***************************************************************************)
(* Properties of _parse_amount (SpecAmount)                                *)
(***************************************************************************)
\* C3: the amount is absent or one or more digits, a dot and exactly two digits.
C3_AmountDigitsDotTwoDigits ==
  pc = "returned" =>
    \/ ret = None
    \/ /\ Len(ret) >= 4
       /\ ret[Len(ret) - 2] = "."
       /\ \A i \in 1..Len(ret) : i # Len(ret) - 2 => ret[i] \in DigitCh

(***************************************************************************)
(* Properties of find_first_match (SpecMatch)                              *)
(***************************************************************************)
\* the patterns of the list, by their place, that match the text
Matching == {k \in 1..Len(patterns) : Search(patterns[k], text).ok}
\* the first non-empty group, trimmed, of the match of the pattern at place k; None without one
CaptureOf(k) == FirstTruthy(Groups(text, Search(patterns[k], text), patterns[k].ng))
\* the patterns that match the text with a non-empty group
Capturing == {k \in Matching : CaptureOf(k) # None}
Least(S) == CHOOSE k \in S : \A j \in S : k <= j

\* C6 as stated: the first pattern of the list that matches the text decides the result: its first
\* non-empty group, trimmed, and absent when its groups are all empty or when no pattern matches.
C6_FirstMatchingPatternDecides ==
  pc = "returned" => ret = (IF Matching = {} THEN None ELSE CaptureOf(Least(Matching)))

\* C6, amended: the first pattern of the list that matches the text with a non-empty group decides
\* the result: that group, trimmed; the result is absent when there is no such pattern.
C6_FirstCapturingPatternDecides ==
  pc = "returned" => ret = (IF Capturing = {} THEN None ELSE CaptureOf(Least(Capturing)))

\* C6, its case: the first matching pattern has only empty groups and a later pattern gave the result
C6_Witness ==
  /\ pc = "returned"
  /\ Matching # {} /\ CaptureOf(Least(Matching)) = None
  /\ ret # None /\ ret # <<>>

(***************************************************************************)
(* Properties of _find_date (SpecDate)                                     *)
(***************************************************************************)
\* s holds a Thai month name, then separators, then a year of at least two digits
HasMonthYear(s) ==
  \E k \in 1..Len(month_keys), i \in 1..Len(s), e \in 1..Len(s) :
    /\ i + Len(month_keys[k]) < e /\ e + 1 <= Len(s)
    /\ SubSeq(s, i, i + Len(month_keys[k]) - 1) = month_keys[k]
    /\ \A j \in (i + Len(month_keys[k]))..(e - 1) : s[j] \in SpaceCh \cup {"/", ".", "-"}
    /\ s[e] \in DigitCh /\ s[e + 1] \in DigitCh
\* s holds a numeric date: one or two digits, twice, and a year of at least two digits, between
\* slashes or dashes
HasNumericDate(s) ==
  \E a \in 2..Len(s), b \in 2..Len(s) :
    /\ b - a \in {2, 3} /\ b + 2 <= Len(s)
    /\ s[a] \in {"/", "-"} /\ s[b] \in {"/", "-"}
    /\ s[a - 1] \in DigitCh
    /\ \A j \in (a + 1)..(b - 1) : s[j] \in DigitCh
    /\ s[b + 1] \in DigitCh /\ s[b + 2] \in DigitCh
\* the first month and year of s has no number of one or two digits before it
NoDayBeforeMonthYear(s) ==
  LET m == Search(month_year_pattern, s)
  IN m.ok /\ FindAll(possible_day_pattern, SubSeq(s, 1, m.start - 1)) = <<>>
\* the components found in s do not make a date of the calendar
FailsValidation(s, year) ==
  LET c == DateComponents(s)
  IN c.found /\ TryFormatDate(c.day_str, c.month_str, c.year_str, year).exc
\* "day month year", as found
LiteralOf(s) ==
  LET c == DateComponents(s)
  IN c.day_str \o <<" ">> \o c.month_str \o <<" ">> \o c.year_str

\* C7 as stated: _find_date never raises; it returns absent only when the text holds neither a
\* month name with a year nor a numeric date, else a non-empty string, which is the literal
\* "day month year" when the components fail validation.
C7_AbsentOnlyWithoutPattern ==
  pc = "returned" =>
    /\ ~raised
    /\ (ret = None) <=> (~HasMonthYear(text) /\ ~HasNumericDate(text))
    /\ ret # <<>>
    /\ FailsValidation(text, now_year) => ret = LiteralOf(text)

\* C7, amended: _find_date never raises; it returns absent when the text holds neither a month
\* name with a year nor a numeric date, and when the first month name with a year has no number of
\* one or two digits before it, and in no other case; else it returns a non-empty string, which is
\* the literal "day month year" when the components fail validation.
C7_AbsentWithoutPatternOrDay ==
  pc = "returned" =>
    /\ ~raised
    /\ (ret = None) <=> \/ (~HasMonthYear(text) /\ ~HasNumericDate(text))
                        \/ (HasMonthYear(text) /\ NoDayBeforeMonthYear(text))
    /\ ret # <<>>
    /\ FailsValidation(text, now_year) => ret = LiteralOf(text)

\* C7, its case: a month name with a year and no day before it gave absent
C7_Witness == pc = "returned" /\ ~raised /\ HasMonthYear(text) /\ NoDayBeforeMonthYear(text) /\ ret = None

\* C8: a date resolved through the calendar is shown as "D <full month name> <year>", the year
\* being the resolved Gregorian year plus 543.
C8_YearShownIsBuddhist ==
  pc = "returned" =>
    LET c == DateComponents(text)
    IN (c.found /\ ~FailsValidation(text, now_year)) =>
         ret = StrOf(IntOf(c.day_str)) \o <<" ">> \o full_thai_months[MonthNum(c.month_str)] \o <<" ">>
               \o StrOf(YearAD(YearBE(c.year_str, now_year)) + 543)

(***************************************************************************)
(* Properties of _find_time (SpecTime)                                     *)
(***************************************************************************)
\* the capture of the leftmost match of a pattern in s, None without a match
CaptureIn(p, s) == LET m == Search(p, s) IN IF m.ok THEN Group(s, m, 1) ELSE None
RECURSIVE FirstOnALine(_, _, _)
\* the capture of a pattern in the first line of ls, from line i on, that has one
FirstOnALine(p, ls, i) ==
  IF i > Len(ls) THEN None
  ELSE IF CaptureIn(p, ls[i]) # None THEN CaptureIn(p, ls[i])
  ELSE FirstOnALine(p, ls, i + 1)
\* rule (a): a time on the line of a date
TimeOnDateLine(s) == FirstOnALine(time_on_date_line_pattern, Split(s), 1)

\* C9: the result is the time of the first rule that finds one: (a) a time on the same line as a
\* date, (b) a time after the keyword, (c) a bare HH:MM:SS, (d) a bare HH:MM; absent when no rule
\* finds one.
C9_RulesInPriorityOrder ==
  pc = "returned" =>
    ret = (IF TimeOnDateLine(text) # None THEN TimeOnDateLine(text)
           ELSE IF CaptureIn(time_keyword_pattern, text) # None THEN CaptureIn(time_keyword_pattern, text)
           ELSE IF CaptureIn(time_hms_pattern, text) # None THEN CaptureIn(time_hms_pattern, text)
           ELSE CaptureIn(time_hm_pattern, text))

(***************************************************************************)
(* the name resolution of parse_payment_slip, under SpecNames              *)
(***************************************************************************)
\* c is the beginning of line
IsPrefix(c, line) == Len(c) <= Len(line) /\ SubSeq(line, 1, Len(c)) = c

RECURSIVE InLineOrder(_, _, _, _)
\* the candidates from the k-th on begin lines of the text, from the i-th on, one after the other
InLineOrder(candidates, lines, k, i) ==
  IF k > Len(candidates) THEN TRUE
  ELSE IF i > Len(lines) THEN FALSE
  ELSE IF IsPrefix(candidates[k], lines[i]) THEN InLineOrder(candidates, lines, k + 1, i + 1)
  ELSE InLineOrder(candidates, lines, k, i + 1)

\* the role after the positional step: kept when it was resolved, else the candidate of its place
\* in the list when the list is that long, else left as it was
RoleAsClaimed(before, candidates, place) ==
  IF ~Falsy(before) THEN before
  ELSE IF Len(candidates) >= place THEN candidates[place]
  ELSE before

\* the positional step from the roles before to the roles after, with the candidate list of the text
FilledAsClaimed(before, after, candidates) ==
  /\ after.sender = RoleAsClaimed(before.sender, candidates, 1)
  /\ after.recipient = RoleAsClaimed(before.recipient, candidates, 2)
  /\ \A i, j \in 1..Len(candidates) : i # j => candidates[i] # candidates[j]
  /\ InLineOrder(candidates, StrippedLines(text), 1, 1)

KeptAndFilled(candidates) ==
  /\ Len(candidates) >= 2
  /\ roles.sender # candidates[1]
  /\ roles.recipient = candidates[2]
C12_TempFileGone == pc = "finished" => (temp_file = None \/ ~Exists(temp_file))

====
